---- MODULE Spec2Model ----
(***************************************************************************)
(* A model of the social-media backend: the relational store (Profile,     *)
(* Post, Follower, Like, Commentary, Blocked, auth Token), the request     *)
(* handlers of core/views.py and user/views.py that write it, the admin    *)
(* site of core/admin.py, the create_post task of core/tasks.py, the feed  *)
(* resolver PostListView.get_queryset and the per-item permission classes  *)
(* of core/permissions.py.                                                 *)
(*                                                                         *)
(* A table with a unique_together pair is a function from the pair to the  *)
(* number of rows that hold it, so that "at most one row per pair" is a    *)
(* property of the handlers and of the store's constraint, not of the      *)
(* representation. A Profile row has an id: the admin change form can give *)
(* the row to another user, and Model.save() finds the row by its id.      *)
(*                                                                         *)
(* No handler runs in a transaction or takes a lock, and requests are      *)
(* served by two workers in every specification. A handler is one step of  *)
(* the worker that serves it for each query that another write can part    *)
(* from the next: X_read (where the handler fetches the post before its    *)
(* pre-check), X_check and X_write; a request that is refused answers in   *)
(* the step that refuses it. Steps of other workers, of staff and of the   *)
(* task may come between the steps of a request.                           *)
(*                                                                         *)
(* The feed is a read of the store: list(viewer) is the set of responses   *)
(* the resolver may give in the current state (rows that tie in the ORDER  *)
(* BY come in any order).                                                  *)
(*                                                                         *)
(* Specifications, each the program restricted to a set of endpoints:      *)
(*   Spec        profiles, a post of the create_post task, one viewer's    *)
(*               follow/unfollow and block/unblock                         *)
(*   SpecOrder   profiles, posts of every user, the viewer's               *)
(*               follow/unfollow                                           *)
(*   SpecStaffBlocks  profiles, a post, the viewer's follow/unfollow and   *)
(*               staff's Blocked rows                                      *)
(*   SpecEngage  profiles, one post, block, like/unlike, comment           *)
(*   SpecLikes   a post, like/unlike of every user, staff's Like rows and  *)
(*               deletion of the post                                      *)
(*   SpecRace    one client's like/unlike, follow/unfollow, block/unblock, *)
(*               staff's changes of Follower and Blocked rows              *)
(*   SpecComments  posts, comment and delete comment of every user on each *)
(*               post, staff's Commentary rows and deletion of a post      *)
(*   SpecPosts   one owner's profile and post, staff's follows of the      *)
(*               owner, post detail, update and delete requested by the    *)
(*               owner, by the other user and with no identity, staff's    *)
(*               change and deletion of the post                           *)
(*   SpecIdentity  every endpoint that needs an identity, requested with   *)
(*               none; login, logout and own profile of one client         *)
(*   SpecProfiles  staff's add, change and delete forms of profiles,       *)
(*               own-profile read and update                               *)
(*   SpecBlocks  profiles, posts, staff's Follower rows of the viewer, and *)
(*               the viewer's block and unblock                            *)
(***************************************************************************)
EXTENDS Integers, Sequences, FiniteSets

VARIABLES
    profile,     \* user -> "none" (no Profile row) | "public" | "private"
    profilePk,   \* user -> the id of the user's Profile row, 0 with no row
    profileSeq,  \* Profile's auto-increment primary key: ids handed out so far
    posts,       \* set of Post rows [id, owner, title, created_at]
    postSeq,     \* Post's auto-increment primary key: ids handed out so far
    now,         \* the last reading of timezone.now(); 0 when the store is built
    follows,     \* <<follower, following>> -> number of Follower rows
    blocks,      \* <<blocker, blocked>>    -> number of Blocked rows
    likes,       \* <<user, post id>>       -> number of Like rows
    comments,    \* set of Commentary rows [id, user, post]
    commentSeq,  \* Commentary's auto-increment primary key
    tokens,      \* user -> number of authtoken Token rows of the user
    resp,        \* the last response sent: [op, status, raised]
    pc           \* worker -> the request it is in the middle of, or Idle

vars == <<profile, profilePk, profileSeq, posts, postSeq, now, follows,
          blocks, likes, comments, commentSeq, tokens, resp, pc>>

(* the Profile table *)
profiles == <<profile, profilePk, profileSeq>>

----------------------------------------------------------------------------
(* Bounds of the model. *)

MaxPosts == 2
\* the posts of the specifications that are about one post's likes and comments
MaxFewPosts == 1
MaxComments == 2
\* the clock readings followed when a deleted post is written again
MaxClock == 1
\* the Profile rows ever inserted
MaxProfiles == 2

(* The registered users; requests may also come with no identity. *)
Users == {"u1", "u2"}
Anonymous == "anon"
Viewers == Users \cup {Anonymous}

(* Server workers, each handling one request at a time. *)
Workers == {"w1", "w2"}

PostIds == 1..MaxPosts
PUBLIC == "public"
PRIVATE == "private"
NoProfile == "none"

Idle == [op |-> "idle"]
NoResponse == [op |-> "none", status |-> 0, raised |-> ""]

is_authenticated(v) == v \in Users

----------------------------------------------------------------------------
(* The store. *)

EmptyTable(keys) == [k \in keys |-> 0]

Exists(table, k) == table[k] > 0

InsertRow(table, k) == [table EXCEPT ![k] = @ + 1]

(* instance.delete(): the one row the handler fetched. *)
DeleteRow(table, k) == [table EXCEPT ![k] = IF @ > 0 THEN @ - 1 ELSE 0]

(* queryset.delete(): every row the filter matches. *)
DeleteAll(table, k) == [table EXCEPT ![k] = 0]

(* unique_together: the store refuses a second row with the same pair. *)
UniqueViolationNever(table, k) == FALSE
UniqueViolation(table, k) == table[k] > 0

PostById(id) == CHOOSE p \in posts : p.id = id
PostExists(id) == \E p \in posts : p.id = id

Init ==
    /\ profile = [u \in Users |-> NoProfile]
    /\ profilePk = [u \in Users |-> 0]
    /\ profileSeq = 0
    /\ posts = {}
    /\ postSeq = 0
    /\ now = 0
    /\ follows = EmptyTable(Users \X Users)
    /\ blocks = EmptyTable(Users \X Users)
    /\ likes = EmptyTable(Users \X PostIds)
    /\ comments = {}
    /\ commentSeq = 0
    /\ tokens = [u \in Users |-> 0]
    /\ resp = NoResponse
    /\ pc = [w \in Workers |-> Idle]

----------------------------------------------------------------------------
(* The feed resolver: PostListView.get_queryset and PostSerializer. *)

RECURSIVE SumOver(_, _)
SumOver(f, S) ==
    IF S = {} THEN 0
    ELSE LET x == CHOOSE y \in S : TRUE IN f[x] + SumOver(f, S \ {x})

following_users(user) == {o \in Users : Exists(follows, <<user, o>>)}

blocked_users(user) == {o \in Users : Exists(blocks, <<user, o>>)}

priority(user, p) == IF p.owner \in following_users(user) THEN 1 ELSE 0

LikeRows(p) == SumOver([u \in Users |-> likes[<<u, p.id>>]], Users)

CommentRows(p) == Cardinality({c \in comments : c.post = p.id})

(* Count("likes", distinct=True), Count("commentaries", distinct=True) *)
likes_count(p) == LikeRows(p)

commentaries_count(p) == CommentRows(p)

(* filter(owner__profile__privacy_setting="public"): the join drops an owner
   with no Profile row. *)
AnonymousFilterAll(p) == TRUE
AnonymousFilter(p) == profile[p.owner] = PUBLIC

(* Q(public) | Q(private, owner__in=following_users) *)
PrivacyClauseNoFollow(user, p) == profile[p.owner] \in {PUBLIC, PRIVATE}
PrivacyClauseOuterJoin(user, p) ==
    \/ profile[p.owner] \in {PUBLIC, NoProfile}
    \/ profile[p.owner] = PRIVATE /\ p.owner \in following_users(user)
PrivacyClause(user, p) ==
    \/ profile[p.owner] = PUBLIC
    \/ profile[p.owner] = PRIVATE /\ p.owner \in following_users(user)

(* .exclude(owner__in=blocked_users) *)
ExcludeClauseUnlessFollowed(user, p) ==
    p.owner \notin blocked_users(user) \/ p.owner \in following_users(user)
ExcludeClause(user, p) == p.owner \notin blocked_users(user)

FeedFilter(user, p) ==
    IF ~is_authenticated(user)
    THEN AnonymousFilter(p)
    ELSE PrivacyClause(user, p) /\ ExcludeClause(user, p)

FeedPosts(user) == {p \in posts : FeedFilter(user, p)}

(* A row of the queryset: the authenticated branch annotates it, the anonymous
   branch does not. *)
Annotate(user, p) ==
    IF ~is_authenticated(user)
    THEN [id |-> p.id, owner |-> p.owner, title |-> p.title,
          created_at |-> p.created_at]
    ELSE [id |-> p.id, owner |-> p.owner, title |-> p.title,
          created_at |-> p.created_at,
          priority |-> priority(user, p),
          likes_count |-> likes_count(p),
          commentaries_count |-> commentaries_count(p)]

(* ORDER BY: Post.Meta.ordering ("-created_at") for the anonymous branch,
   order_by("-priority", "-created_at") for the authenticated one. TRUE when
   the store may return row a before row b; rows that tie come in any order. *)
MayPrecedeByTimeOnly(user, a, b) == a.created_at >= b.created_at
MayPrecede(user, a, b) ==
    IF ~is_authenticated(user)
    THEN a.created_at >= b.created_at
    ELSE \/ a.priority > b.priority
         \/ a.priority = b.priority /\ a.created_at >= b.created_at

Arrangements(S) ==
    {s \in [1..Cardinality(S) -> S] :
        \A i, j \in 1..Cardinality(S) : i # j => s[i] # s[j]}

(* The results the resolver may return for the viewer in the current store. *)
get_queryset(user) ==
    LET rows == {Annotate(user, p) : p \in FeedPosts(user)}
    IN {s \in Arrangements(rows) :
           \A i, j \in 1..Len(s) : i < j => MayPrecede(user, s[i], s[j])}

(* PostSerializer: a read-only field whose attribute the row lacks is left
   out of the representation. *)
SerializerFields ==
    {"id", "title", "owner", "likes_count", "commentaries_count", "created_at"}

PostSerializer(row) ==
    [f \in SerializerFields \cap DOMAIN row |-> row[f]]

(* GET /posts/ *)
list(user) ==
    {[i \in 1..Len(s) |-> PostSerializer(s[i])] : s \in get_queryset(user)}

----------------------------------------------------------------------------
(* The per-item access gates of core/permissions.py. *)

UserInstance(u) == [type |-> "User", pk |-> u]
PkValue(u) == [type |-> "int", pk |-> u]

(* Python's ==: a model instance never equals a bare primary key. *)
PyEq(a, b) == a.type = b.type /\ a.pk = b.pk

(* x in iterable *)
PyIn(x, S) == \E y \in S : PyEq(x, y)

(* Follower.objects.filter(follower=user).values_list("following", flat=True) *)
following_values(user) == {PkValue(o) : o \in following_users(user)}

CanViewPostPermission(user, p) ==
    IF ~is_authenticated(user) THEN "deny"
    ELSE IF Exists(blocks, <<user, p.owner>>) THEN "deny"
    ELSE IF profile[p.owner] = NoProfile THEN "error"
    ELSE IF /\ profile[p.owner] = PRIVATE
            /\ ~PyIn(UserInstance(p.owner), following_values(user))
         THEN "deny"
    ELSE "allow"

CanLikePostPermission(user, p) ==
    IF ~is_authenticated(user) THEN "deny"
    ELSE IF Exists(blocks, <<user, p.owner>>) THEN "deny"
    ELSE IF profile[p.owner] = NoProfile THEN "error"
    ELSE IF /\ profile[p.owner] = PRIVATE
            /\ ~PyIn(UserInstance(p.owner), following_values(user))
         THEN "deny"
    ELSE "allow"

CanCommentOnPostPermission(user, p) ==
    IF ~is_authenticated(user) THEN "deny"
    ELSE IF Exists(blocks, <<user, p.owner>>) THEN "deny"
    ELSE IF profile[p.owner] = NoProfile THEN "error"
    ELSE IF /\ profile[p.owner] = PRIVATE
            /\ ~PyIn(UserInstance(p.owner), following_values(user))
         THEN "deny"
    ELSE "allow"

----------------------------------------------------------------------------
(* Responses and the write of a row under a unique constraint. *)

Response(op, status) == [op |-> op, status |-> status, raised |-> ""]

(* An exception no handler catches: the framework answers 500. *)
ServerError(op, exc) == [op |-> op, status |-> 500, raised |-> exc]

(* Model.objects.create(...) on a table with unique_together *)
Create(table, k) ==
    IF UniqueViolation(table, k)
    THEN [table |-> table, raised |-> "IntegrityError"]
    ELSE [table |-> InsertRow(table, k), raised |-> ""]

CreateResponse(op, created) ==
    IF created.raised # "" THEN ServerError(op, created.raised)
    ELSE Response(op, 201)

(* Model.objects.create(...) of a row with a foreign key to a row that may be
   gone: the store refuses it. *)
CreateReferring(table, k, referenced) ==
    IF ~referenced
    THEN [table |-> table, raised |-> "IntegrityError"]
    ELSE Create(table, k)

UserPks == Users \cup {"nobody"}

----------------------------------------------------------------------------
(* Requests in progress. A handler that reads the store and then writes it
   runs no transaction and takes no lock: its reads and its write are
   separate steps of the worker that serves it, and steps of other workers, of staff
   and of tasks may come between. pc[w] is the request worker w has read for
   and not yet written. *)

Request(op, user, pk) == [op |-> op, user |-> user, pk |-> pk]

(* a request that holds the row it fetched, for instance.delete() or
   instance.save(): row is the key the fetched row has now, fresh is FALSE
   once that row has been deleted *)
Holding(op, user, pk, row) ==
    [op |-> op, user |-> user, pk |-> pk, row |-> row, fresh |-> TRUE]

(* the fetched row of a request is gone after this step *)
Gone(r) ==
    IF r.op = "unlike" THEN likes'[r.row] = 0
    ELSE IF r.op = "unfollow" THEN follows'[r.row] = 0
    ELSE IF r.op = "logout" THEN tokens'[r.row] = 0
    ELSE FALSE

Stale(r) == IF Gone(r) THEN [r EXCEPT !.fresh = FALSE] ELSE r

(* staff changed the key of a row that a request holds: the request holds the
   same row under its new key *)
Moved(r, op, from, to) ==
    IF r.op = op /\ r.fresh /\ r.row = from THEN [r EXCEPT !.row = to] ELSE r

(* the requests in progress after a step that leaves them as f *)
Refresh(f) == pc' = [x \in Workers |-> Stale(f[x])]

(* the handler goes on to its write *)
Proceed(w, request) ==
    /\ resp' = resp
    /\ Refresh([pc EXCEPT ![w] = request])

(* the handler returns a response *)
Answer(w, response) ==
    /\ resp' = response
    /\ Refresh([pc EXCEPT ![w] = Idle])

(* a step of staff or of a task, which no worker serves *)
Done(response) ==
    /\ resp' = response
    /\ Refresh(pc)

----------------------------------------------------------------------------
(* The admin site: core/admin.py registers Profile, Post, Follower, Like,
   Commentary and Blocked, so staff add, change and delete rows of each. A
   saved form is answered 302, a form the model's validation refuses is shown
   again (200) and writes nothing. *)

Saved == Response("admin", 302)
Refused == Response("admin", 200)

(* on_delete=CASCADE of Like.post and Commentary.post *)
CascadeLikes(pk) ==
    [k \in DOMAIN likes |-> IF k[2] = pk THEN 0 ELSE likes[k]]

CascadeComments(pk) == {c \in comments : c.post # pk}

(* Profile rows. The add form validates the one-to-one field user: a user
   who has a row gets no second one. *)
InsertProfile(u, setting) ==
    /\ profile' = [profile EXCEPT ![u] = setting]
    /\ profilePk' = [profilePk EXCEPT ![u] = profileSeq + 1]
    /\ profileSeq' = profileSeq + 1

AdminAddProfile(u, setting) ==
    /\ IF profile[u] # NoProfile
       THEN UNCHANGED profiles /\ resp' = Refused
       ELSE InsertProfile(u, setting) /\ resp' = Saved
    /\ UNCHANGED <<tokens, posts, postSeq, now, follows, blocks, likes,
                   comments, commentSeq>>
    /\ Refresh(pc)

(* the change form of u's row offers the fields user and privacy_setting; the
   row keeps its id *)
AdminChangeProfile(u, to, setting) ==
    /\ profile[u] # NoProfile
    /\ IF to # u /\ profile[to] # NoProfile
       THEN UNCHANGED profiles /\ resp' = Refused
       ELSE /\ profile' = [x \in Users |->
                               IF x = to THEN setting
                               ELSE IF x = u THEN NoProfile
                               ELSE profile[x]]
            /\ profilePk' = [x \in Users |->
                                 IF x = to THEN profilePk[u]
                                 ELSE IF x = u THEN 0
                                 ELSE profilePk[x]]
            /\ profileSeq' = profileSeq
            /\ resp' = Saved
    /\ UNCHANGED <<tokens, posts, postSeq, now, follows, blocks, likes,
                   comments, commentSeq>>
    /\ Refresh(pc)

AdminDeleteProfile(u) ==
    /\ profile[u] # NoProfile
    /\ profile' = [profile EXCEPT ![u] = NoProfile]
    /\ profilePk' = [profilePk EXCEPT ![u] = 0]
    /\ profileSeq' = profileSeq
    /\ UNCHANGED <<tokens, posts, postSeq, now, follows, blocks, likes,
                   comments, commentSeq>>
    /\ Done(Saved)

(* timezone.now(): not before the last reading, and after the moment the
   store was built; two requests may read the same instant. *)
ClockReadings == {t \in {now, now + 1} : t > 0}

(* Titles a post may carry; a new post is given the first. *)
Titles == {"a", "b"}
NewTitles == {"a"}

(* Post.objects.create / the admin's add form: created_at is auto_now_add *)
InsertPost(owner, title, t) ==
    /\ now' = t
    /\ posts' = posts \cup
          {[id |-> postSeq + 1, owner |-> owner, title |-> title,
            created_at |-> t]}
    /\ postSeq' = postSeq + 1

(* staff add a post for any user *)
AdminSavePost(owner, title) ==
    /\ \E t \in ClockReadings : InsertPost(owner, title, t)
    /\ UNCHANGED <<tokens, profiles, follows, blocks, likes, comments,
                   commentSeq>>
    /\ Done(Saved)

(* staff edit a post's title and owner; created_at is not editable *)
AdminChangePost(pk, owner, title) ==
    /\ PostExists(pk)
    /\ LET obj == PostById(pk)
       IN posts' = (posts \ {obj}) \cup
             {[obj EXCEPT !.owner = owner, !.title = title]}
    /\ UNCHANGED <<tokens, profiles, postSeq, now, follows, blocks, likes,
                   comments, commentSeq>>
    /\ Done(Saved)

(* staff delete a post: its likes and comments go with it *)
AdminDeletePost(pk) ==
    /\ PostExists(pk)
    /\ posts' = {p \in posts : p.id # pk}
    /\ likes' = CascadeLikes(pk)
    /\ comments' = CascadeComments(pk)
    /\ UNCHANGED <<tokens, profiles, postSeq, now, follows, blocks,
                   commentSeq>>
    /\ Done(Saved)

(* core/tasks.py: the Celery task create_post. A schedule_time that is given
   goes through timezone.make_aware before the owner is read; the created_at
   the task passes is overwritten by auto_now_add; an owner_id with no User
   row raises. *)
TaskDone(exc) == [op |-> "task", status |-> 0, raised |-> exc]

(* schedule_time: absent, a naive datetime, an aware datetime, or the ISO
   string a JSON message delivers *)
ScheduleTimes == {"None", "naive", "aware", "str"}

(* timezone.make_aware(value): is_naive(value) reads value.utcoffset() *)
make_aware(value) ==
    IF value = "str" THEN [value |-> value, raised |-> "AttributeError"]
    ELSE IF value = "aware" THEN [value |-> value, raised |-> "ValueError"]
    ELSE [value |-> "aware", raised |-> ""]

create_post(owner_id, title, schedule_time) ==
    /\ LET made == IF schedule_time # "None" THEN make_aware(schedule_time)
                   ELSE [value |-> "aware", raised |-> ""]
       IN IF made.raised # ""
          THEN /\ UNCHANGED <<posts, postSeq, now>>
               /\ resp' = TaskDone(made.raised)
          ELSE IF owner_id \notin Users
          THEN /\ UNCHANGED <<posts, postSeq, now>>
               /\ resp' = TaskDone("DoesNotExist")
          ELSE /\ \E t \in ClockReadings : InsertPost(owner_id, title, t)
               /\ resp' = TaskDone("")
    /\ UNCHANGED <<tokens, profiles, follows, blocks, likes, comments,
                   commentSeq>>
    /\ Refresh(pc)

(* Follower rows: the add and change forms validate unique_together, a
   changed row against the other rows *)
AdminAddFollower(k) ==
    /\ IF UniqueViolation(follows, k)
       THEN follows' = follows /\ resp' = Refused
       ELSE follows' = InsertRow(follows, k) /\ resp' = Saved
    /\ UNCHANGED <<tokens, profiles, posts, postSeq, now, blocks, likes,
                   comments, commentSeq>>
    /\ Refresh(pc)

AdminChangeFollower(from, to) ==
    /\ Exists(follows, from)
    /\ IF from # to /\ UniqueViolation(follows, to)
       THEN follows' = follows /\ resp' = Refused
       ELSE /\ follows' = InsertRow(DeleteRow(follows, from), to)
            /\ resp' = Saved
    /\ UNCHANGED <<tokens, profiles, posts, postSeq, now, blocks, likes,
                   comments, commentSeq>>
    /\ IF from # to /\ UniqueViolation(follows, to)
       THEN Refresh(pc)
       ELSE Refresh([x \in Workers |-> Moved(pc[x], "unfollow", from, to)])

AdminDeleteFollower(k) ==
    /\ Exists(follows, k)
    /\ follows' = DeleteRow(follows, k)
    /\ UNCHANGED <<tokens, profiles, posts, postSeq, now, blocks, likes,
                   comments, commentSeq>>
    /\ Done(Saved)

(* Blocked rows: the form has no rule against blocker = blocked *)
AdminAddBlocked(k) ==
    /\ IF UniqueViolation(blocks, k)
       THEN blocks' = blocks /\ resp' = Refused
       ELSE blocks' = InsertRow(blocks, k) /\ resp' = Saved
    /\ UNCHANGED <<tokens, profiles, posts, postSeq, now, follows, likes,
                   comments, commentSeq>>
    /\ Refresh(pc)

AdminChangeBlocked(from, to) ==
    /\ Exists(blocks, from)
    /\ IF from # to /\ UniqueViolation(blocks, to)
       THEN blocks' = blocks /\ resp' = Refused
       ELSE /\ blocks' = InsertRow(DeleteRow(blocks, from), to)
            /\ resp' = Saved
    /\ UNCHANGED <<tokens, profiles, posts, postSeq, now, follows, likes,
                   comments, commentSeq>>
    /\ Refresh(pc)

AdminDeleteBlocked(k) ==
    /\ Exists(blocks, k)
    /\ blocks' = DeleteRow(blocks, k)
    /\ UNCHANGED <<tokens, profiles, posts, postSeq, now, follows, likes,
                   comments, commentSeq>>
    /\ Done(Saved)

(* Like rows; the form offers the posts that exist *)
AdminAddLike(k) ==
    /\ PostExists(k[2])
    /\ IF UniqueViolation(likes, k)
       THEN likes' = likes /\ resp' = Refused
       ELSE likes' = InsertRow(likes, k) /\ resp' = Saved
    /\ UNCHANGED <<tokens, profiles, posts, postSeq, now, follows, blocks,
                   comments, commentSeq>>
    /\ Refresh(pc)

AdminChangeLike(from, to) ==
    /\ Exists(likes, from)
    /\ PostExists(to[2])
    /\ IF from # to /\ UniqueViolation(likes, to)
       THEN likes' = likes /\ resp' = Refused
       ELSE /\ likes' = InsertRow(DeleteRow(likes, from), to)
            /\ resp' = Saved
    /\ UNCHANGED <<tokens, profiles, posts, postSeq, now, follows, blocks,
                   comments, commentSeq>>
    /\ IF from # to /\ UniqueViolation(likes, to)
       THEN Refresh(pc)
       ELSE Refresh([x \in Workers |-> Moved(pc[x], "unlike", from, to)])

AdminDeleteLike(k) ==
    /\ Exists(likes, k)
    /\ likes' = DeleteRow(likes, k)
    /\ UNCHANGED <<tokens, profiles, posts, postSeq, now, follows, blocks,
                   comments, commentSeq>>
    /\ Done(Saved)

(* Commentary rows *)
AdminAddCommentary(user, pk) ==
    /\ PostExists(pk)
    /\ comments' = comments \cup
          {[id |-> commentSeq + 1, user |-> user, post |-> pk]}
    /\ commentSeq' = commentSeq + 1
    /\ UNCHANGED <<tokens, profiles, posts, postSeq, now, follows, blocks,
                   likes>>
    /\ Done(Saved)

AdminChangeCommentary(comment_id, user, pk) ==
    /\ PostExists(pk)
    /\ \E c \in comments :
          /\ c.id = comment_id
          /\ comments' = (comments \ {c}) \cup
                {[c EXCEPT !.user = user, !.post = pk]}
    /\ UNCHANGED <<tokens, profiles, posts, postSeq, now, follows, blocks,
                   likes, commentSeq>>
    /\ Done(Saved)

AdminDeleteCommentary(comment_id) ==
    /\ \E c \in comments : c.id = comment_id
    /\ comments' = {c \in comments : c.id # comment_id}
    /\ UNCHANGED <<tokens, profiles, posts, postSeq, now, follows, blocks,
                   likes, commentSeq>>
    /\ Done(Saved)

----------------------------------------------------------------------------
(* Profiles. *)

ProfileData ==
    [description : BOOLEAN, privacy_setting : {"absent", PUBLIC, PRIVATE}]

(* user_data.get("profile", {}): the fields with source "profile.*" that the
   request carries *)
profile_data(data) == data.description \/ data.privacy_setting # "absent"

(* PUT/PATCH profile/me/, UserProfileSerializer.update up to
   Profile.objects.get_or_create(user=instance): the row is created with the
   model's default, public, when the user has none. The handler then holds
   the row: its id and every column of it. *)
UserProfileSerializer_update_check(w, user, data) ==
    /\ pc[w] = Idle
    /\ UNCHANGED <<tokens, posts, postSeq, now, follows, blocks, likes,
                   comments, commentSeq>>
    /\ IF ~is_authenticated(user)
       THEN /\ UNCHANGED profiles
            /\ Answer(w, Response("profile_update", 401))
       ELSE IF ~profile_data(data)
       THEN /\ UNCHANGED profiles
            /\ Answer(w, Response("profile_update", 200))
       ELSE /\ IF profile[user] = NoProfile
               THEN InsertProfile(user, PUBLIC)
               ELSE UNCHANGED profiles
            /\ Proceed(w, [op |-> "profile_update", user |-> user,
                           id |-> profilePk'[user],
                           privacy_setting |-> profile'[user]])

(* the user whose Profile row has this id, if the row is there *)
ProfileById(id) == {u \in Users : profilePk[u] = id}

(* profile.save(): an UPDATE of every column of the row with the held id,
   user_id among them, and, when that updates no row, an INSERT of the row
   under the held id. The one-to-one constraint refuses either when the user
   has another row by then. *)
UserProfileSerializer_update_write(w) ==
    /\ pc[w].op = "profile_update"
    /\ LET user == pc[w].user
           id == pc[w].id
       IN IF profilePk[user] \notin {0, id}
          THEN /\ UNCHANGED profiles
               /\ resp' = ServerError("profile_update", "IntegrityError")
          ELSE /\ profile' = [x \in Users |->
                                  IF x = user THEN pc[w].privacy_setting
                                  ELSE IF x \in ProfileById(id) THEN NoProfile
                                  ELSE profile[x]]
               /\ profilePk' = [x \in Users |->
                                    IF x = user THEN id
                                    ELSE IF x \in ProfileById(id) THEN 0
                                    ELSE profilePk[x]]
               /\ profileSeq' = profileSeq
               /\ resp' = Response("profile_update", 200)
    /\ UNCHANGED <<tokens, posts, postSeq, now, follows, blocks, likes,
                   comments, commentSeq>>
    /\ Refresh([pc EXCEPT ![w] = Idle])

(* GET profile/me/ *)
ProfileView_get(user) ==
    /\ UNCHANGED <<tokens, profiles, posts, postSeq, now, follows, blocks,
                   likes, comments, commentSeq>>
    /\ IF ~is_authenticated(user)
       THEN Done(Response("profile_get", 401))
       ELSE Done(Response("profile_get", 200))

----------------------------------------------------------------------------
(* Login and logout. *)

(* LoginUserView (ObtainAuthToken): Token.objects.get_or_create(user=user)
   for valid credentials. *)
LoginUserView_post(user, valid) ==
    /\ IF ~valid
       THEN resp' = Response("login", 400) /\ UNCHANGED tokens
       ELSE /\ tokens' = [tokens EXCEPT ![user] = 1]
            /\ resp' = Response("login", 200)
    /\ UNCHANGED <<profiles, posts, postSeq, now, follows, blocks, likes,
                   comments, commentSeq>>
    /\ Refresh(pc)

(* LogoutView.get, request.user.auth_token: the view names no permission
   class; the attribute raises AttributeError for the anonymous user and
   RelatedObjectDoesNotExist for a user with no token. *)
LogoutView_get_check(w, user) ==
    /\ pc[w] = Idle
    /\ UNCHANGED <<tokens, profiles, posts, postSeq, now, follows, blocks,
                   likes, comments, commentSeq>>
    /\ IF ~is_authenticated(user)
       THEN Answer(w, ServerError("logout", "AttributeError"))
       ELSE IF tokens[user] = 0
       THEN Answer(w, ServerError("logout", "RelatedObjectDoesNotExist"))
       ELSE Proceed(w, Holding("logout", user, user, user))

(* .delete() of the token that was read *)
LogoutView_get_write(w) ==
    /\ pc[w].op = "logout"
    /\ tokens' = IF pc[w].fresh THEN DeleteRow(tokens, pc[w].row) ELSE tokens
    /\ resp' = Response("logout", 200)
    /\ UNCHANGED <<profiles, posts, postSeq, now, follows, blocks, likes,
                   comments, commentSeq>>
    /\ Refresh([pc EXCEPT ![w] = Idle])

----------------------------------------------------------------------------
(* Posts. *)

(* The body of a post request: a title, and the nested "commentaries" list,
   present or not. *)
PostData == [title : Titles, commentaries : BOOLEAN]

(* ModelSerializer.create and .update refuse a writable nested serializer:
   PostRetrieveSerializer.commentaries in validated_data. *)
raise_errors_on_nested_writes(data) == data.commentaries

(* PostRetrieveSerializer.is_valid: "commentaries" is required unless the
   update is partial (PATCH). *)
is_valid(data, partial) == data.commentaries \/ partial

(* POST /posts/: create with PostRetrieveSerializer, then perform_create. *)
PostListView_create(user, data) ==
    /\ IF /\ is_authenticated(user) /\ is_valid(data, FALSE)
          /\ ~raise_errors_on_nested_writes(data)
       THEN \E t \in ClockReadings : InsertPost(user, data.title, t)
       ELSE UNCHANGED <<posts, postSeq, now>>
    /\ UNCHANGED <<tokens, profiles, follows, blocks, likes, comments,
                   commentSeq>>
    /\ IF ~is_authenticated(user)
       THEN Done(Response("create_post", 401))
       ELSE IF ~is_valid(data, FALSE)
       THEN Done(Response("create_post", 400))
       ELSE IF raise_errors_on_nested_writes(data)
       THEN Done(ServerError("create_post", "AssertionError"))
       ELSE Done(Response("create_post", 201))

(* ModelViewSet.get_object: the post is looked up in get_queryset(), the
   requester's own feed. *)
get_objectAnyPost(user, pk) == {p \in posts : p.id = pk}
get_object(user, pk) == {p \in FeedPosts(user) : p.id = pk}

SAFE_METHODS == {"GET", "HEAD", "OPTIONS"}

(* IsOwnerOrReadOnly.has_object_permission; the anonymous user equals no
   owner. *)
IsOwnerOrReadOnlyAnyone(user, method, obj) == TRUE
IsOwnerOrReadOnly(user, method, obj) ==
    \/ method \in SAFE_METHODS
    \/ obj.owner = user

(* APIView.permission_denied: NotAuthenticated for a request with no identity,
   PermissionDenied otherwise. *)
permission_denied(user) == IF ~is_authenticated(user) THEN 401 ELSE 403

(* GET /posts/{pk}/ *)
PostListView_retrieve(user, pk) ==
    /\ UNCHANGED <<tokens, profiles, posts, postSeq, now, follows, blocks,
                   likes, comments, commentSeq>>
    /\ IF ~is_authenticated(user)
       THEN Done(Response("retrieve_post", 401))
       ELSE IF get_object(user, pk) = {}
       THEN Done(Response("retrieve_post", 404))
       ELSE Done(Response("retrieve_post", 200))

(* PUT and PATCH /posts/{pk}/ up to serializer.is_valid: get_object,
   check_object_permissions, validation. The handler then holds the post row
   it fetched. *)
PostListView_update_check(w, user, pk, data, partial) ==
    /\ pc[w] = Idle
    /\ UNCHANGED <<tokens, profiles, posts, postSeq, now, follows, blocks,
                   likes, comments, commentSeq>>
    /\ LET found == get_object(user, pk)
           obj == CHOOSE p \in found : TRUE
           method == IF partial THEN "PATCH" ELSE "PUT"
       IN IF found = {}
          THEN Answer(w, Response("update_post", 404))
          ELSE IF ~IsOwnerOrReadOnly(user, method, obj)
          THEN Answer(w, Response("update_post", permission_denied(user)))
          ELSE IF ~is_valid(data, partial)
          THEN Answer(w, Response("update_post", 400))
          ELSE IF raise_errors_on_nested_writes(data)
          THEN Answer(w, ServerError("update_post", "AssertionError"))
          ELSE Proceed(w, [op |-> "update_post", user |-> user, pk |-> pk,
                           obj |-> [obj EXCEPT !.title = data.title]])

(* serializer.save(), Model.save() of the held row: an UPDATE of every column
   where id = pk and, when that updates no row, an INSERT of the row, whose
   created_at auto_now_add then sets. *)
PostListView_update_write(w, t) ==
    /\ pc[w].op = "update_post"
    /\ LET obj == pc[w].obj
       IN IF PostExists(obj.id)
          THEN /\ posts' = {p \in posts : p.id # obj.id} \cup {obj}
               /\ now' = now
          ELSE /\ posts' = posts \cup {[obj EXCEPT !.created_at = t]}
               /\ now' = t
    /\ resp' = Response("update_post", 200)
    /\ UNCHANGED <<tokens, profiles, postSeq, follows, blocks, likes,
                   comments, commentSeq>>
    /\ Refresh([pc EXCEPT ![w] = Idle])

(* DELETE /posts/{pk}/ up to check_object_permissions *)
PostListView_destroy_check(w, user, pk) ==
    /\ pc[w] = Idle
    /\ UNCHANGED <<tokens, profiles, posts, postSeq, now, follows, blocks,
                   likes, comments, commentSeq>>
    /\ LET found == get_object(user, pk)
           obj == CHOOSE p \in found : TRUE
       IN IF found = {}
          THEN Answer(w, Response("destroy_post", 404))
          ELSE IF ~IsOwnerOrReadOnly(user, "DELETE", obj)
          THEN Answer(w, Response("destroy_post", permission_denied(user)))
          ELSE Proceed(w, [op |-> "destroy_post", user |-> user, pk |-> pk,
                           obj |-> obj])

(* instance.delete(): the row with the held id, and the likes and comments
   that refer to it *)
PostListView_destroy_write(w) ==
    /\ pc[w].op = "destroy_post"
    /\ posts' = {p \in posts : p.id # pc[w].pk}
    /\ likes' = CascadeLikes(pc[w].pk)
    /\ comments' = CascadeComments(pc[w].pk)
    /\ resp' = Response("destroy_post", 204)
    /\ UNCHANGED <<tokens, profiles, postSeq, now, follows, blocks,
                   commentSeq>>
    /\ Refresh([pc EXCEPT ![w] = Idle])

----------------------------------------------------------------------------
(* Follow and unfollow. *)

(* existing_following: Follower.objects.filter(follower=user,
   following=profile_pk).first() *)
existing_followingOrSelf(user, pk) == pk = user \/ Exists(follows, <<user, pk>>)
existing_following(user, pk) == Exists(follows, <<user, pk>>)

(* FollowSerializer.post up to the pre-check *)
FollowSerializer_post_check(w, user, pk) ==
    /\ pc[w] = Idle
    /\ UNCHANGED <<tokens, profiles, posts, postSeq, now, follows, blocks,
                   likes, comments, commentSeq>>
    /\ IF ~is_authenticated(user)
       THEN Answer(w, Response("follow", 401))
       ELSE IF pk \notin Users
       THEN Answer(w, Response("follow", 404))
       ELSE IF existing_following(user, pk)
       THEN Answer(w, Response("follow", 400))
       ELSE Proceed(w, Request("follow", user, pk))

(* Follower.objects.create(follower=user, following=profile_pk) *)
FollowSerializer_post_write(w) ==
    /\ pc[w].op = "follow"
    /\ LET created == Create(follows, <<pc[w].user, pc[w].pk>>)
       IN /\ follows' = created.table
          /\ resp' = CreateResponse("follow", created)
    /\ UNCHANGED <<tokens, profiles, posts, postSeq, now, blocks, likes,
                   comments, commentSeq>>
    /\ Refresh([pc EXCEPT ![w] = Idle])

(* FollowSerializer.delete up to the pre-check: the handler then holds the
   row it fetched *)
FollowSerializer_delete_check(w, user, pk) ==
    /\ pc[w] = Idle
    /\ UNCHANGED <<tokens, profiles, posts, postSeq, now, follows, blocks,
                   likes, comments, commentSeq>>
    /\ IF ~is_authenticated(user)
       THEN Answer(w, Response("unfollow", 401))
       ELSE IF pk \notin Users
       THEN Answer(w, Response("unfollow", 404))
       ELSE IF ~existing_following(user, pk)
       THEN Answer(w, Response("unfollow", 400))
       ELSE Proceed(w, Holding("unfollow", user, pk, <<user, pk>>))

(* existing_following.delete() *)
FollowSerializer_delete_write(w) ==
    /\ pc[w].op = "unfollow"
    /\ follows' = IF pc[w].fresh THEN DeleteRow(follows, pc[w].row)
                  ELSE follows
    /\ resp' = Response("unfollow", 204)
    /\ UNCHANGED <<tokens, profiles, posts, postSeq, now, blocks, likes,
                   comments, commentSeq>>
    /\ Refresh([pc EXCEPT ![w] = Idle])

----------------------------------------------------------------------------
(* Block and unblock. *)

(* user == blocker *)
IsBlockerNever(user, blocker) == FALSE
IsBlocker(user, blocker) == user = blocker

(* BlockedUserView.post up to the pre-check *)
BlockedUserView_post_check(w, user, pk) ==
    /\ pc[w] = Idle
    /\ UNCHANGED <<tokens, profiles, posts, postSeq, now, follows, blocks,
                   likes, comments, commentSeq>>
    /\ IF ~is_authenticated(user)
       THEN Answer(w, Response("block", 401))
       ELSE IF pk \notin Users
       THEN Answer(w, Response("block", 404))
       ELSE IF IsBlocker(pk, user)
       THEN Answer(w, Response("block", 400))
       ELSE IF Exists(blocks, <<user, pk>>)
       THEN Answer(w, Response("block", 400))
       ELSE Proceed(w, Request("block", user, pk))

(* Blocked.objects.create(blocker=request.user, blocked=user) *)
BlockedUserView_post_write_Unfollows(w) ==
    /\ pc[w].op = "block"
    /\ LET created == Create(blocks, <<pc[w].user, pc[w].pk>>)
       IN /\ blocks' = created.table
          /\ resp' = CreateResponse("block", created)
    /\ follows' = DeleteAll(follows, <<pc[w].user, pc[w].pk>>)
    /\ UNCHANGED <<tokens, profiles, posts, postSeq, now, likes,
                   comments, commentSeq>>
    /\ Refresh([pc EXCEPT ![w] = Idle])
BlockedUserView_post_write(w) ==
    /\ pc[w].op = "block"
    /\ LET created == Create(blocks, <<pc[w].user, pc[w].pk>>)
       IN /\ blocks' = created.table
          /\ resp' = CreateResponse("block", created)
    /\ UNCHANGED <<tokens, profiles, posts, postSeq, now, follows, likes,
                   comments, commentSeq>>
    /\ Refresh([pc EXCEPT ![w] = Idle])

(* BlockedUserView.delete up to blocked_in_bd.exists() *)
BlockedUserView_delete_check(w, user, pk) ==
    /\ pc[w] = Idle
    /\ UNCHANGED <<tokens, profiles, posts, postSeq, now, follows, blocks,
                   likes, comments, commentSeq>>
    /\ IF ~is_authenticated(user)
       THEN Answer(w, Response("unblock", 401))
       ELSE IF pk \notin Users
       THEN Answer(w, Response("unblock", 404))
       ELSE IF IsBlocker(pk, user)
       THEN Answer(w, Response("unblock", 400))
       ELSE IF ~Exists(blocks, <<user, pk>>)
       THEN Answer(w, Response("unblock", 400))
       ELSE Proceed(w, Request("unblock", user, pk))

(* blocked_in_bd.delete(): the rows the filter matches when it runs *)
BlockedUserView_delete_write(w) ==
    /\ pc[w].op = "unblock"
    /\ blocks' = DeleteAll(blocks, <<pc[w].user, pc[w].pk>>)
    /\ resp' = Response("unblock", 204)
    /\ UNCHANGED <<tokens, profiles, posts, postSeq, now, follows, likes,
                   comments, commentSeq>>
    /\ Refresh([pc EXCEPT ![w] = Idle])

----------------------------------------------------------------------------
(* Likes and comments. *)

(* existing_like: Like.objects.filter(post=post_id, user=request.user).first() *)
existing_likeNever(user, pk) == FALSE
existing_like(user, pk) == Exists(likes, <<user, pk>>)

(* LikesView.post, get_object_or_404(Post, pk=pk): the first read *)
LikesView_post_read(w, user, pk) ==
    /\ pc[w] = Idle
    /\ UNCHANGED <<tokens, profiles, posts, postSeq, now, follows, blocks,
                   likes, comments, commentSeq>>
    /\ IF ~is_authenticated(user)
       THEN Answer(w, Response("like", 401))
       ELSE IF ~PostExists(pk)
       THEN Answer(w, Response("like", 404))
       ELSE Proceed(w, Request("liking", user, pk))

(* the second read, existing_like, and the pre-check *)
LikesView_post_check(w) ==
    /\ pc[w].op = "liking"
    /\ UNCHANGED <<tokens, profiles, posts, postSeq, now, follows, blocks,
                   likes, comments, commentSeq>>
    /\ IF existing_like(pc[w].user, pc[w].pk)
       THEN Answer(w, Response("like", 400))
       ELSE Proceed(w, Request("like", pc[w].user, pc[w].pk))

(* Like.objects.create(post=post_id, user=request.user) *)
LikesView_post_write(w) ==
    /\ pc[w].op = "like"
    /\ LET created == CreateReferring(likes, <<pc[w].user, pc[w].pk>>,
                                      PostExists(pc[w].pk))
       IN /\ likes' = created.table
          /\ resp' = CreateResponse("like", created)
    /\ UNCHANGED <<tokens, profiles, posts, postSeq, now, follows, blocks,
                   comments, commentSeq>>
    /\ Refresh([pc EXCEPT ![w] = Idle])

(* LikesView.delete, get_object_or_404(Post, pk=pk): the first read *)
LikesView_delete_read(w, user, pk) ==
    /\ pc[w] = Idle
    /\ UNCHANGED <<tokens, profiles, posts, postSeq, now, follows, blocks,
                   likes, comments, commentSeq>>
    /\ IF ~is_authenticated(user)
       THEN Answer(w, Response("unlike", 401))
       ELSE IF ~PostExists(pk)
       THEN Answer(w, Response("unlike", 404))
       ELSE Proceed(w, Request("unliking", user, pk))

(* the second read, existing_like, and the pre-check: the handler then holds
   the row it fetched *)
LikesView_delete_check(w) ==
    /\ pc[w].op = "unliking"
    /\ UNCHANGED <<tokens, profiles, posts, postSeq, now, follows, blocks,
                   likes, comments, commentSeq>>
    /\ IF ~existing_like(pc[w].user, pc[w].pk)
       THEN Answer(w, Response("unlike", 400))
       ELSE Proceed(w, Holding("unlike", pc[w].user, pc[w].pk,
                               <<pc[w].user, pc[w].pk>>))

(* existing_like.delete() *)
LikesView_delete_write(w) ==
    /\ pc[w].op = "unlike"
    /\ likes' = IF pc[w].fresh THEN DeleteRow(likes, pc[w].row) ELSE likes
    /\ resp' = Response("unlike", 204)
    /\ UNCHANGED <<tokens, profiles, posts, postSeq, now, follows, blocks,
                   comments, commentSeq>>
    /\ Refresh([pc EXCEPT ![w] = Idle])

Bodies == {"", "text"}

(* CommentsView.post up to the body test *)
CommentsView_post_check(w, user, pk, body) ==
    /\ pc[w] = Idle
    /\ UNCHANGED <<tokens, profiles, posts, postSeq, now, follows, blocks,
                   likes, comments, commentSeq>>
    /\ IF ~is_authenticated(user)
       THEN Answer(w, Response("comment", 401))
       ELSE IF ~PostExists(pk)
       THEN Answer(w, Response("comment", 404))
       ELSE IF body = ""
       THEN Answer(w, Response("comment", 400))
       ELSE Proceed(w, Request("comment", user, pk))

(* Commentary.objects.create(post=post_id, user=request.user, body=body): the
   store refuses the row when the post is gone *)
CommentsView_post_write(w) ==
    /\ pc[w].op = "comment"
    /\ IF ~PostExists(pc[w].pk)
       THEN /\ UNCHANGED <<comments, commentSeq>>
            /\ resp' = ServerError("comment", "IntegrityError")
       ELSE /\ comments' = comments \cup
                  {[id |-> commentSeq + 1, user |-> pc[w].user,
                    post |-> pc[w].pk]}
            /\ commentSeq' = commentSeq + 1
            /\ resp' = Response("comment", 201)
    /\ UNCHANGED <<tokens, profiles, posts, postSeq, now, follows, blocks,
                   likes>>
    /\ Refresh([pc EXCEPT ![w] = Idle])

CommentIds == 1..MaxComments

(* get_object_or_404(Commentary, pk=comment_id, post=post) *)
CommentOf(pk, comment_id) ==
    {c \in comments : c.id = comment_id /\ c.post = pk}

(* comment.user != request.user *)
NotTheAuthorNever(comment, user) == FALSE
NotTheAuthor(comment, user) == comment.user # user

(* CommentsView.delete, get_object_or_404(Post, pk=pk): the first read *)
CommentsView_delete_read(w, user, pk, comment_id) ==
    /\ pc[w] = Idle
    /\ UNCHANGED <<tokens, profiles, posts, postSeq, now, follows, blocks,
                   likes, comments, commentSeq>>
    /\ IF ~is_authenticated(user)
       THEN Answer(w, Response("delete_comment", 401))
       ELSE IF ~PostExists(pk)
       THEN Answer(w, Response("delete_comment", 404))
       ELSE Proceed(w, [op |-> "deleting_comment", user |-> user,
                        pk |-> pk, comment_id |-> comment_id])

(* the second read, the comment of that post, and the author test: the
   handler then holds the comment it fetched *)
CommentsView_delete_check(w) ==
    /\ pc[w].op = "deleting_comment"
    /\ UNCHANGED <<tokens, profiles, posts, postSeq, now, follows, blocks,
                   likes, comments, commentSeq>>
    /\ LET user == pc[w].user
           found == CommentOf(pc[w].pk, pc[w].comment_id)
           comment == CHOOSE c \in found : TRUE
       IN IF found = {}
          THEN Answer(w, Response("delete_comment", 404))
          ELSE IF NotTheAuthor(comment, user)
          THEN Answer(w, Response("delete_comment", 403))
          ELSE Proceed(w, [op |-> "delete_comment", user |-> user,
                           pk |-> pc[w].pk, comment |-> comment])

(* comment.delete(): the row with the held id *)
CommentsView_delete_write(w) ==
    /\ pc[w].op = "delete_comment"
    /\ comments' = {c \in comments : c.id # pc[w].comment.id}
    /\ resp' = Response("delete_comment", 204)
    /\ UNCHANGED <<tokens, profiles, posts, postSeq, now, follows, blocks,
                   likes, commentSeq>>
    /\ Refresh([pc EXCEPT ![w] = Idle])

----------------------------------------------------------------------------
(* Steps shared by the specifications. Two workers serve the requests of
   every specification. *)

FeedViewers == {"u1"}
PostOwners == {"u1"}
PrivacySettings == {PUBLIC, PRIVATE}
FewPostIds == 1..MaxFewPosts

(* staff add a Profile row, and change the privacy_setting of one *)
AddProfile ==
    \E u \in Users, setting \in PrivacySettings :
        profileSeq < MaxProfiles /\ AdminAddProfile(u, setting)
ChangePrivacy ==
    \E u \in Users, setting \in PrivacySettings : AdminChangeProfile(u, u, setting)

(* staff add posts: of one owner, one post of any user, posts of every user *)
OwnerCreatePost ==
    \E owner \in PostOwners, title \in NewTitles :
        postSeq < MaxFewPosts /\ AdminSavePost(owner, title)
StaffPost ==
    \E owner \in Users, title \in NewTitles :
        postSeq < MaxFewPosts /\ AdminSavePost(owner, title)
StaffCreatePost ==
    \E owner \in Users, title \in NewTitles :
        postSeq < MaxPosts /\ AdminSavePost(owner, title)

Follow ==
    \E w \in Workers, user \in FeedViewers, pk \in Users :
        FollowSerializer_post_check(w, user, pk)
FollowWrite == \E w \in Workers : FollowSerializer_post_write(w)
Unfollow ==
    \E w \in Workers, user \in FeedViewers, pk \in Users :
        FollowSerializer_delete_check(w, user, pk)
UnfollowWrite == \E w \in Workers : FollowSerializer_delete_write(w)
Block ==
    \E w \in Workers, user \in FeedViewers, pk \in Users :
        BlockedUserView_post_check(w, user, pk)
BlockWrite == \E w \in Workers : BlockedUserView_post_write(w)
Unblock ==
    \E w \in Workers, user \in FeedViewers, pk \in Users :
        BlockedUserView_delete_check(w, user, pk)
UnblockWrite == \E w \in Workers : BlockedUserView_delete_write(w)

LikeCheck == \E w \in Workers : LikesView_post_check(w)
LikeWrite == \E w \in Workers : LikesView_post_write(w)
UnlikeCheck == \E w \in Workers : LikesView_delete_check(w)
UnlikeWrite == \E w \in Workers : LikesView_delete_write(w)
CommentWrite == \E w \in Workers : CommentsView_post_write(w)
DeleteCommentCheck == \E w \in Workers : CommentsView_delete_check(w)
DeleteCommentWrite == \E w \in Workers : CommentsView_delete_write(w)
ProfileUpdateWrite == \E w \in Workers : UserProfileSerializer_update_write(w)

(* the comment requests that have not written yet take the next ids *)
CommentsToCome == Cardinality({w \in Workers : pc[w].op = "comment"})

----------------------------------------------------------------------------
(* The social graph and who is in the feed: profiles of every user, a post
   the task creates, and one viewer's follow, unfollow, block and unblock
   requests. *)

Next ==
    \/ AddProfile
    \/ ChangePrivacy
    \/ \E owner_id \in UserPks, title \in NewTitles, schedule_time \in ScheduleTimes :
            postSeq < MaxFewPosts /\ create_post(owner_id, title, schedule_time)
    \/ Follow
    \/ FollowWrite
    \/ Unfollow
    \/ UnfollowWrite
    \/ Block
    \/ BlockWrite
    \/ Unblock
    \/ UnblockWrite

Spec == Init /\ [][Next]_vars

----------------------------------------------------------------------------
(* The order of the feed: profiles and posts of every user and the viewer's
   follow and unfollow requests. *)

NextOrder ==
    \/ AddProfile
    \/ ChangePrivacy
    \/ StaffCreatePost
    \/ Follow
    \/ FollowWrite
    \/ Unfollow
    \/ UnfollowWrite

SpecOrder == Init /\ [][NextOrder]_vars

----------------------------------------------------------------------------
(* Blocked rows no request can write: profiles, a post, the viewer's follow
   and unfollow requests, and staff's rows (u1, u1) and (u2, u1). *)

StaffBlocks == {<<"u1", "u1">>, <<"u2", "u1">>}

NextStaffBlocks ==
    \/ AddProfile
    \/ ChangePrivacy
    \/ StaffPost
    \/ Follow
    \/ FollowWrite
    \/ Unfollow
    \/ UnfollowWrite
    \/ \E k \in StaffBlocks : AdminAddBlocked(k)
    \/ \E k \in StaffBlocks : AdminDeleteBlocked(k)

SpecStaffBlocks == Init /\ [][NextStaffBlocks]_vars

----------------------------------------------------------------------------
(* Likes, comments and the counts the feed shows: profiles, one post, and the
   viewer's block, like, unlike and comment requests. *)

NextEngage ==
    \/ AddProfile
    \/ ChangePrivacy
    \/ StaffPost
    \/ Block
    \/ BlockWrite
    \/ \E w \in Workers, user \in FeedViewers, pk \in FewPostIds :
            LikesView_post_read(w, user, pk)
    \/ LikeCheck
    \/ LikeWrite
    \/ \E w \in Workers, user \in FeedViewers, pk \in FewPostIds :
            LikesView_delete_read(w, user, pk)
    \/ UnlikeCheck
    \/ UnlikeWrite
    \/ \E w \in Workers, user \in FeedViewers, pk \in FewPostIds, body \in Bodies :
            /\ commentSeq + CommentsToCome < MaxComments
            /\ CommentsView_post_check(w, user, pk, body)
    \/ CommentWrite

SpecEngage == Init /\ [][NextEngage]_vars

----------------------------------------------------------------------------
(* Likes alone: one owner's post, the like and unlike requests of every
   user, and staff's edits of Like rows and deletion of the post. *)

NextLikes ==
    \/ OwnerCreatePost
    \/ \E w \in Workers, user \in Users, pk \in FewPostIds :
            LikesView_post_read(w, user, pk)
    \/ LikeCheck
    \/ LikeWrite
    \/ \E w \in Workers, user \in Users, pk \in FewPostIds :
            LikesView_delete_read(w, user, pk)
    \/ UnlikeCheck
    \/ UnlikeWrite
    \/ \E k \in Users \X FewPostIds : AdminAddLike(k)
    \/ \E from \in Users \X FewPostIds, to \in Users \X FewPostIds :
            AdminChangeLike(from, to)
    \/ \E k \in Users \X FewPostIds : AdminDeleteLike(k)
    \/ \E pk \in FewPostIds : AdminDeletePost(pk)

SpecLikes == Init /\ [][NextLikes]_vars

----------------------------------------------------------------------------
(* Concurrent requests: one client sending like, unlike, follow, unfollow,
   block and unblock requests, each request's reads and write apart, while
   staff move Follower and Blocked rows. *)

RaceClients == {"u1"}

NextRace ==
    \/ OwnerCreatePost
    \/ \E w \in Workers, user \in RaceClients, pk \in FewPostIds :
            LikesView_post_read(w, user, pk)
    \/ LikeCheck
    \/ LikeWrite
    \/ \E w \in Workers, user \in RaceClients, pk \in FewPostIds :
            LikesView_delete_read(w, user, pk)
    \/ UnlikeCheck
    \/ UnlikeWrite
    \/ \E w \in Workers, user \in RaceClients, pk \in Users :
            FollowSerializer_post_check(w, user, pk)
    \/ FollowWrite
    \/ \E w \in Workers, user \in RaceClients, pk \in Users :
            FollowSerializer_delete_check(w, user, pk)
    \/ UnfollowWrite
    \/ \E w \in Workers, user \in RaceClients, pk \in Users :
            BlockedUserView_post_check(w, user, pk)
    \/ BlockWrite
    \/ \E w \in Workers, user \in RaceClients, pk \in Users :
            BlockedUserView_delete_check(w, user, pk)
    \/ UnblockWrite
    \/ \E from \in RaceClients \X Users, to \in RaceClients \X Users :
            AdminChangeFollower(from, to)
    \/ \E from \in RaceClients \X Users, to \in RaceClients \X Users :
            AdminChangeBlocked(from, to)

SpecRace == Init /\ [][NextRace]_vars

----------------------------------------------------------------------------
(* Comments: one owner's posts, the comment and delete-comment requests of
   every user on each of them, and staff's edits of Commentary rows, which
   can give a comment to another post, and deletion of a post. *)

NextComments ==
    \/ \E owner \in PostOwners, title \in NewTitles :
            postSeq < MaxPosts /\ AdminSavePost(owner, title)
    \/ \E w \in Workers, user \in Users, pk \in PostIds, body \in Bodies :
            /\ commentSeq + CommentsToCome < MaxComments
            /\ CommentsView_post_check(w, user, pk, body)
    \/ CommentWrite
    \/ \E w \in Workers, user \in Users, pk \in PostIds, comment_id \in CommentIds :
            CommentsView_delete_read(w, user, pk, comment_id)
    \/ DeleteCommentCheck
    \/ DeleteCommentWrite
    \/ \E user \in Users, pk \in PostIds :
            /\ commentSeq + CommentsToCome < MaxComments
            /\ AdminAddCommentary(user, pk)
    \/ \E comment_id \in CommentIds, user \in Users, pk \in PostIds :
            AdminChangeCommentary(comment_id, user, pk)
    \/ \E comment_id \in CommentIds : AdminDeleteCommentary(comment_id)
    \/ \E pk \in PostIds : AdminDeletePost(pk)

SpecComments == Init /\ [][NextComments]_vars

----------------------------------------------------------------------------
(* Post detail, update and delete: one user's profile and posts, the first
   post named by the requests of the owner, of the other user and of the
   anonymous one, and staff's edits of that post and of the follows of its
   owner. *)

(* the posts that requests and staff's edits name; other posts stand by *)
EditedPosts == {1}

(* the bodies of update requests: they carry a title no new post has *)
PostEdits == {data \in PostData : data.title \notin NewTitles}

NextPosts ==
    \/ \E u \in PostOwners, setting \in PrivacySettings :
            profileSeq < MaxProfiles /\ AdminAddProfile(u, setting)
    \/ \E u \in PostOwners, setting \in PrivacySettings :
            AdminChangeProfile(u, u, setting)
    \/ OwnerCreatePost
    \/ \E user \in Users, pk \in PostOwners : AdminAddFollower(<<user, pk>>)
    \/ \E user \in Users, pk \in PostOwners : AdminDeleteFollower(<<user, pk>>)
    \/ \E user \in Viewers, pk \in EditedPosts : PostListView_retrieve(user, pk)
    \/ \E w \in Workers, user \in Viewers, pk \in EditedPosts, data \in PostEdits, partial \in BOOLEAN :
            PostListView_update_check(w, user, pk, data, partial)
    \/ \E w \in Workers, t \in ClockReadings :
            t <= MaxClock /\ PostListView_update_write(w, t)
    \/ \E w \in Workers, user \in Viewers, pk \in EditedPosts :
            PostListView_destroy_check(w, user, pk)
    \/ \E w \in Workers : PostListView_destroy_write(w)
    \/ \E pk \in EditedPosts, owner \in Users, title \in Titles :
            AdminChangePost(pk, owner, title)
    \/ \E pk \in EditedPosts : AdminDeletePost(pk)

SpecPosts == Init /\ [][NextPosts]_vars

----------------------------------------------------------------------------
(* Requests with no identity on every endpoint that needs one, over a store
   that staff fill with a post and comments, and a registered client with
   login, logout and own-profile read and update. *)

Clients == {"u1"}
Targets == {"u2", "nobody"}

NextIdentity ==
    \/ OwnerCreatePost
    \/ \E user \in Clients, pk \in FewPostIds :
            commentSeq < MaxComments /\ AdminAddCommentary(user, pk)
    \/ \E data \in PostData : PostListView_create(Anonymous, data)
    \/ \E pk \in FewPostIds : PostListView_retrieve(Anonymous, pk)
    \/ \E w \in Workers, pk \in FewPostIds : LikesView_post_read(w, Anonymous, pk)
    \/ \E w \in Workers, pk \in FewPostIds : LikesView_delete_read(w, Anonymous, pk)
    \/ \E w \in Workers, pk \in FewPostIds, body \in Bodies :
            CommentsView_post_check(w, Anonymous, pk, body)
    \/ \E w \in Workers, pk \in FewPostIds, comment_id \in CommentIds :
            CommentsView_delete_read(w, Anonymous, pk, comment_id)
    \/ \E w \in Workers, pk \in Targets : FollowSerializer_post_check(w, Anonymous, pk)
    \/ \E w \in Workers, pk \in Targets : FollowSerializer_delete_check(w, Anonymous, pk)
    \/ \E w \in Workers, pk \in Targets : BlockedUserView_post_check(w, Anonymous, pk)
    \/ \E w \in Workers, pk \in Targets : BlockedUserView_delete_check(w, Anonymous, pk)
    \/ \E user \in Clients \cup {Anonymous} : ProfileView_get(user)
    \/ \E w \in Workers, user \in Clients \cup {Anonymous}, data \in ProfileData :
            /\ IF is_authenticated(user)
               THEN profile[user] # NoProfile \/ profileSeq < MaxProfiles
               ELSE TRUE
            /\ UserProfileSerializer_update_check(w, user, data)
    \/ ProfileUpdateWrite
    \/ \E user \in Clients, valid \in BOOLEAN : LoginUserView_post(user, valid)
    \/ \E w \in Workers, user \in Clients \cup {Anonymous} :
            LogoutView_get_check(w, user)
    \/ \E w \in Workers : LogoutView_get_write(w)

SpecIdentity == Init /\ [][NextIdentity]_vars

----------------------------------------------------------------------------
(* Profiles alone: staff's add, change and delete forms, and every user's
   own-profile read and update. *)

UpdateProfile ==
    \E w \in Workers, user \in Users, data \in ProfileData :
        /\ profile[user] # NoProfile \/ profileSeq < MaxProfiles
        /\ UserProfileSerializer_update_check(w, user, data)

NextProfiles ==
    \/ AddProfile
    \/ \E u \in Users, to \in Users, setting \in PrivacySettings :
            AdminChangeProfile(u, to, setting)
    \/ \E u \in Users : AdminDeleteProfile(u)
    \/ UpdateProfile
    \/ ProfileUpdateWrite
    \/ \E user \in Users : ProfileView_get(user)

SpecProfiles == Init /\ [][NextProfiles]_vars

----------------------------------------------------------------------------
(* Blocks and the feed: profiles and posts of every user, staff's Follower
   rows of the viewer, and the viewer's block and unblock requests. *)

NextBlocks ==
    \/ AddProfile
    \/ ChangePrivacy
    \/ StaffCreatePost
    \/ \E k \in FeedViewers \X Users : AdminAddFollower(k)
    \/ \E k \in FeedViewers \X Users : AdminDeleteFollower(k)
    \/ Block
    \/ BlockWrite
    \/ Unblock
    \/ UnblockWrite

SpecBlocks == Init /\ [][NextBlocks]_vars

----------------------------------------------------------------------------
(* Properties of the feed. *)

FeedIds(s) == {s[i].id : i \in 1..Len(s)}

Follows(v, o) == follows[<<v, o>>] > 0
HasBlocked(v, o) == blocks[<<v, o>>] > 0

(* C1: for every authenticated viewer V and every post of an owner O whose
   profile is private, the post is in V's feed if and only if V follows O and
   V has not blocked O; O may be V. *)
C1_PrivateOwnerIffFollowedNotBlocked ==
    \A v \in Users : \A s \in list(v) : \A p \in posts :
        profile[p.owner] = PRIVATE =>
            (p.id \in FeedIds(s) <=>
                (Follows(v, p.owner) /\ ~HasBlocked(v, p.owner)))

(* a private owner's post is in the owner's own feed, and the owner has
   blocked the other user, whom they follow *)
C1_Witness ==
    \E v \in Users : \E p \in posts : \E s \in list(v) :
        /\ profile[p.owner] = PRIVATE /\ p.owner = v
        /\ p.id \in FeedIds(s)
        /\ \E o \in Users \ {v} : Follows(v, o) /\ HasBlocked(v, o)

(* C2: no post whose owner the authenticated viewer has blocked is in the
   viewer's feed, whatever the owner's privacy and whether or not the viewer
   follows the owner. *)
C2_BlockedOwnerNeverInFeed ==
    \A v \in Users : \A s \in list(v) : \A i \in 1..Len(s) :
        ~HasBlocked(v, s[i].owner)

C2_Witness ==
    \E v \in Users : \E p \in posts : \E s \in list(v) :
        /\ profile[p.owner] = PUBLIC
        /\ HasBlocked(v, p.owner) /\ Follows(v, p.owner)
        /\ p.id \notin FeedIds(s)

(* C3: the anonymous viewer's feed holds only posts of owners whose profile is
   public, and creation time alone orders it: no post precedes a post created
   later. *)
C3_AnonymousPublicOnlyNewestFirst ==
    \A s \in list(Anonymous) :
        /\ \A i \in 1..Len(s) : profile[s[i].owner] = PUBLIC
        /\ \A i, j \in 1..Len(s) : i < j => s[i].created_at >= s[j].created_at

C3_Witness ==
    \E s \in list(Anonymous) : Len(s) = 2 /\ s[1].created_at > s[2].created_at

(* C4: in an authenticated viewer's feed every post of a followed owner comes
   before every post of an owner the viewer does not follow, and within each
   of the two tiers no post precedes a post created later. *)
C4_FollowedFirstThenNewestFirst ==
    \A v \in Users : \A s \in list(v) : \A i, j \in 1..Len(s) :
        i < j =>
            /\ ~(~Follows(v, s[i].owner) /\ Follows(v, s[j].owner))
            /\ (Follows(v, s[i].owner) <=> Follows(v, s[j].owner))
                   => s[i].created_at >= s[j].created_at

C4_Witness ==
    \E v \in Users : \E s \in list(v) :
        /\ Len(s) = 2
        /\ Follows(v, s[1].owner) /\ ~Follows(v, s[2].owner)
        /\ s[1].created_at < s[2].created_at

(* C5: for every authenticated viewer and every post, each per-item gate
   allows the viewer exactly when the post is in the viewer's feed. *)
C5_GatesAgreeWithFeed ==
    \A v \in Users : \A p \in posts :
        /\ CanViewPostPermission(v, p) = "allow" <=> p \in FeedPosts(v)
        /\ CanLikePostPermission(v, p) = "allow" <=> p \in FeedPosts(v)
        /\ CanCommentOnPostPermission(v, p) = "allow" <=> p \in FeedPosts(v)

(* C16: no feed, the anonymous viewer's or an authenticated viewer's, holds a
   post whose owner has no Profile row, whether or not the viewer follows the
   owner. *)
C16_NoProfileOwnerInNoFeed ==
    \A v \in Viewers : \A s \in list(v) : \A i \in 1..Len(s) :
        profile[s[i].owner] # NoProfile

(* a viewer follows an owner who has no Profile row and does not get the
   owner's post, while the feed holds another post *)
C16_Witness ==
    \E v \in Users : \E p \in posts : \E s \in list(v) :
        /\ profile[p.owner] = NoProfile
        /\ Follows(v, p.owner)
        /\ p.id \notin FeedIds(s)
        /\ Len(s) > 0

(* the privacy and follow rule of the feed, blocks left aside *)
VisibleByPrivacyAndFollow(v, p) ==
    \/ profile[p.owner] = PUBLIC
    \/ profile[p.owner] = PRIVATE /\ Follows(v, p.owner)

(* C20: when a post's owner O has blocked the viewer V and V has not blocked
   O, the post is in V's feed, and each access gate allows V, exactly when the
   privacy and follow rule makes it visible to V: O's block of V hides
   nothing from V. *)
C20_BlockHidesFromBlockerOnly ==
    \A v \in Users : \A p \in posts :
        (HasBlocked(p.owner, v) /\ ~HasBlocked(v, p.owner)) =>
            /\ p \in FeedPosts(v) <=> VisibleByPrivacyAndFollow(v, p)
            /\ CanViewPostPermission(v, p) = "allow"
                   <=> VisibleByPrivacyAndFollow(v, p)
            /\ CanLikePostPermission(v, p) = "allow"
                   <=> VisibleByPrivacyAndFollow(v, p)
            /\ CanCommentOnPostPermission(v, p) = "allow"
                   <=> VisibleByPrivacyAndFollow(v, p)

(* a worker passes the pre-check of a follow of the requester by the
   requester, or writes the row of one while no such row exists *)
SelfFollowRecorded ==
    \A w \in Workers : \A u \in Users :
        /\ (/\ ~Follows(u, u)
            /\ FollowSerializer_post_check(w, u, u))
           => pc'[w] = Request("follow", u, u)
        /\ (/\ pc[w] = Request("follow", u, u)
            /\ ~Follows(u, u)
            /\ FollowSerializer_post_write(w))
           => /\ resp' = Response("follow", 201)
              /\ follows' = [follows EXCEPT ![<<u, u>>] = 1]

(* C15, as the claim states it: a follow request whose target is the
   requester, with no such edge yet, is answered 201 and records the edge
   (u, u); and a post of a viewer whose profile is private is in that viewer's
   own feed exactly when the viewer follows themselves. *)
C15_SelfFollowOpensOwnFeed ==
    /\ [](\A v \in Users : \A s \in list(v) : \A p \in posts :
              (profile[v] = PRIVATE /\ p.owner = v) =>
                  (p.id \in FeedIds(s) <=> Follows(v, v)))
    /\ [][SelfFollowRecorded]_vars

(* C15, amended: a follow request whose target is the requester, with no such
   edge yet, is answered 201 and records the edge (u, u); and a post of a
   viewer whose profile is private is in that viewer's own feed exactly when
   the viewer follows themselves and no Blocked row names the viewer as both
   blocker and blocked. *)
C15_SelfFollowOpensOwnFeedUnlessSelfBlocked ==
    /\ [](\A v \in Users : \A s \in list(v) : \A p \in posts :
              (profile[v] = PRIVATE /\ p.owner = v) =>
                  (p.id \in FeedIds(s) <=>
                      (Follows(v, v) /\ ~HasBlocked(v, v))))
    /\ [][SelfFollowRecorded]_vars

(* the follow just answered 201 made the only Follower row, a self-follow of
   a private owner, whose post is now in their own feed *)
C15_Witness ==
    /\ resp = Response("follow", 201)
    /\ \E u \in Users :
          /\ \A k \in DOMAIN follows : follows[k] > 0 <=> k = <<u, u>>
          /\ profile[u] = PRIVATE
          /\ \E p \in posts : \E s \in list(u) :
                p.owner = u /\ p.id \in FeedIds(s)

----------------------------------------------------------------------------
(* Properties of likes, comments and concurrent writes. *)

AccessDenied(v, p) ==
    \/ HasBlocked(v, p.owner)
    \/ profile[p.owner] = PRIVATE /\ ~Follows(v, p.owner)

CommentsBy(v, id) == {c \in comments : c.user = v /\ c.post = id}

(* C6: when the viewer has blocked the post's owner, or the owner's profile is
   private and the viewer does not follow the owner, no request creates a Like
   or a Commentary row of the viewer on that post. *)
C6_LikeAndCommentGated ==
    [][\A v \in Users : \A p \in posts :
          AccessDenied(v, p) =>
              /\ likes'[<<v, p.id>>] <= likes[<<v, p.id>>]
              /\ CommentsBy(v, p.id)' \subseteq CommentsBy(v, p.id)]_vars

CreateOps == {"like", "follow", "block"}

(* C7: a create request whose write the unique constraint rejects, after a
   concurrent identical request passed the same pre-check, is answered with
   the 400 "already exists" outcome of a sequential duplicate. *)
C7_RejectedWriteAnswersConflict ==
    (resp.op \in CreateOps /\ resp.raised = "IntegrityError") => resp.status = 400

(* C8: under any interleaving of like/unlike, follow/unfollow and
   block/unblock requests the store holds at most one Like per (user, post),
   one Follower per (follower, following) and one Blocked per
   (blocker, blocked). *)
C8_AtMostOneRowPerPair ==
    /\ \A k \in DOMAIN likes : likes[k] <= 1
    /\ \A k \in DOMAIN follows : follows[k] <= 1
    /\ \A k \in DOMAIN blocks : blocks[k] <= 1

(* the store has just refused the second Like row of a pair *)
C8_Witness ==
    /\ resp.op = "like" /\ resp.raised = "IntegrityError"
    /\ \E k \in DOMAIN likes : likes[k] = 1

LikeCountOf(pk) == likes_count(PostById(pk))

store ==
    <<profile, profilePk, profileSeq, posts, postSeq, now, follows, blocks,
      likes, comments, commentSeq, tokens>>

LikeSteps == {"liking", "like", "unliking", "unlike"}

(* C9: a like request that finds the viewer's Like of the post is answered
   400, goes no further and changes neither the Like rows nor the post's like
   count; an unlike request that finds no Like of the viewer on the post is
   answered 400, goes no further and changes no Like row; a like that is
   answered 201 has raised the post's like count by exactly one; an unlike is
   answered 204 and removes no Like row but the one it fetched, the viewer's
   own. *)
C9_LikeUnlikeIdempotence ==
    [][\A w \in {x \in Workers : pc[x].op \in LikeSteps} :
       \A user \in {pc[w].user} : \A pk \in {pc[w].pk} :
          /\ (/\ pc[w].op = "liking" /\ Exists(likes, <<user, pk>>)
              /\ LikesView_post_check(w))
             => /\ resp' = Response("like", 400)
                /\ pc' = [pc EXCEPT ![w] = Idle]
                /\ likes' = likes
                /\ LikeCountOf(pk)' = LikeCountOf(pk)
          /\ (/\ pc[w].op = "unliking" /\ ~Exists(likes, <<user, pk>>)
              /\ LikesView_delete_check(w))
             => /\ resp' = Response("unlike", 400)
                /\ pc' = [pc EXCEPT ![w] = Idle]
                /\ likes' = likes
          /\ (/\ pc[w].op = "unliking" /\ Exists(likes, <<user, pk>>)
              /\ LikesView_delete_check(w))
             => /\ pc'[w] = Holding("unlike", user, pk, <<user, pk>>)
                /\ likes' = likes
          /\ (/\ pc[w].op = "like"
              /\ LikesView_post_write(w)
              /\ resp'.status = 201)
             => /\ LikeCountOf(pk)' = LikeCountOf(pk) + 1
                /\ likes' = [likes EXCEPT ![<<user, pk>>] = 1]
          /\ (/\ pc[w].op = "unlike"
              /\ LikesView_delete_write(w))
             => /\ resp' = Response("unlike", 204)
                /\ \A k \in DOMAIN likes :
                      /\ likes'[k] <= likes[k]
                      /\ likes'[k] < likes[k] => (pc[w].fresh /\ k = pc[w].row)
                /\ pc[w].fresh => likes'[pc[w].row] = 0]_vars

(* a like of an already liked post has just been refused, and a post has the
   likes of two users *)
C9_Witness ==
    /\ resp = Response("like", 400)
    /\ \E p \in posts : LikeCountOf(p.id) = 2

LikesOn(id) == Cardinality({u \in Users : likes[<<u, id>>] > 0})

(* C10: for every viewer, anonymous or authenticated, every post of the feed
   carries likes_count, the number of Like rows on the post, and
   commentaries_count, the number of Commentary rows on it. *)
C10_FeedCarriesCounts ==
    \A v \in Viewers : \A s \in list(v) : \A i \in 1..Len(s) :
        /\ "likes_count" \in DOMAIN s[i]
        /\ "commentaries_count" \in DOMAIN s[i]
        /\ s[i].likes_count = LikesOn(s[i].id)
        /\ s[i].commentaries_count = Cardinality({c \in comments : c.post = s[i].id})

----------------------------------------------------------------------------
(* Properties of requests that are refused. *)

(* a step of staff that writes the Blocked table *)
StaffWritesBlocked ==
    \/ \E k \in Users \X Users : AdminAddBlocked(k)
    \/ \E from \in Users \X Users, to \in Users \X Users :
          AdminChangeBlocked(from, to)

(* C11: a block request whose target is the requester is answered 400, goes
   no further and changes nothing in the store; and no step of a request
   makes an edge (u, u) of the Blocked relation: while there is none, only a
   write of staff brings one. *)
C11_SelfBlockRejected ==
    [][/\ \A w \in Workers : \A u \in Users :
             BlockedUserView_post_check(w, u, u) =>
                 /\ resp' = Response("block", 400)
                 /\ pc' = pc
                 /\ UNCHANGED store
       /\ ((\A u \in Users : blocks[<<u, u>>] = 0) /\ ~StaffWritesBlocked)
             => \A u \in Users : blocks'[<<u, u>>] = 0]_vars

(* the last request was a block answered 400 while no Blocked row exists: it
   was not a duplicate, so its target was the requester *)
C11_Witness ==
    /\ resp = Response("block", 400)
    /\ \A k \in DOMAIN blocks : blocks[k] = 0
    /\ posts # {}

----------------------------------------------------------------------------
(* Comments and their deletion. *)

(* C12: a delete-comment request naming a post that does not exist is
   answered 404 and changes nothing; one that, having read the post, finds no
   comment of that id on that post is answered 404 and changes nothing; one
   by a user who is not the comment's author is answered 403 and changes
   nothing; a request by the author goes on to its delete, which is answered
   204 and removes the comment the request fetched, a comment of the
   requester then, and no other row. *)
C12_DeleteCommentByAuthorOnly ==
    [][\A w \in Workers :
          /\ \A user \in Users : \A pk \in PostIds : \A comment_id \in CommentIds :
                CommentsView_delete_read(w, user, pk, comment_id) =>
                    /\ UNCHANGED store
                    /\ IF ~PostExists(pk)
                       THEN resp' = Response("delete_comment", 404) /\ pc' = pc
                       ELSE /\ resp' = resp
                            /\ pc'[w].op = "deleting_comment"
          /\ (pc[w].op = "deleting_comment" /\ CommentsView_delete_check(w)) =>
                LET named == {c \in comments : c.id = pc[w].comment_id}
                IN /\ UNCHANGED store
                   /\ IF named = {} \/ (\A c \in named : c.post # pc[w].pk)
                      THEN /\ resp' = Response("delete_comment", 404)
                           /\ pc' = [pc EXCEPT ![w] = Idle]
                      ELSE IF \A c \in named : c.user # pc[w].user
                      THEN /\ resp' = Response("delete_comment", 403)
                           /\ pc' = [pc EXCEPT ![w] = Idle]
                      ELSE /\ pc'[w].op = "delete_comment"
                           /\ pc'[w].comment \in named
          /\ (pc[w].op = "delete_comment" /\ CommentsView_delete_write(w)) =>
                /\ resp' = Response("delete_comment", 204)
                /\ pc[w].comment.user = pc[w].user
                /\ comments' = {c \in comments : c.id # pc[w].comment.id}
                /\ UNCHANGED <<profiles, posts, postSeq, now, follows,
                               blocks, likes, commentSeq, tokens>>]_vars

(* a delete-comment request was just answered 404 while every post id has
   its post and every comment id its comment, all of one author on one post:
   the post in the URL was there and so was the comment named, on the other
   post *)
C12_Witness ==
    /\ resp = Response("delete_comment", 404)
    /\ \A pk \in PostIds : PostExists(pk)
    /\ \A comment_id \in CommentIds : \E c \in comments : c.id = comment_id
    /\ \A c \in comments : \A d \in comments : c.user = d.user /\ c.post = d.post

----------------------------------------------------------------------------
(* Posts: who may edit and delete them. *)

(* the row of the post with this id, as a set of at most one row *)
PostRow(id) == {p \in posts : p.id = id}

(* a step of staff on the Post table *)
StaffWritesPost ==
    \/ \E pk \in FewPostIds, owner \in Users, title \in Titles :
          AdminChangePost(pk, owner, title)
    \/ \E pk \in FewPostIds : AdminDeletePost(pk)

(* C13: an update or delete request for a post by anyone who is not its owner,
   another user or a request with no identity, is refused, goes no further
   and leaves the store as it was; and a step that changes or removes a post,
   or brings a removed one back, is a write of staff or the write of an
   update or delete that the post's owner requested: the requester is the
   owner of the row the request fetched. *)
C13_OnlyOwnerEditsOrDeletes ==
    [][/\ \A w \in Workers : \A user \in Viewers : \A p \in posts :
             (/\ user # p.owner
              /\ \/ PostListView_destroy_check(w, user, p.id)
                 \/ \E data \in PostData, partial \in BOOLEAN :
                        PostListView_update_check(w, user, p.id, data, partial))
             => /\ resp'.op \in {"destroy_post", "update_post"}
                /\ resp'.status \in {401, 403, 404}
                /\ pc' = pc
                /\ UNCHANGED store
       /\ \A id \in FewPostIds :
             (/\ PostRow(id)' # PostRow(id)
              /\ ~StaffWritesPost
              /\ ~OwnerCreatePost)
             => \E w \in Workers :
                   /\ pc[w].op \in {"destroy_post", "update_post"}
                   /\ pc[w].obj.id = id
                   /\ pc[w].user = pc[w].obj.owner
                   /\ \/ PostListView_destroy_write(w)
                      \/ \E t \in ClockReadings : PostListView_update_write(w, t)]_vars

(* a user who sees the post in their feed and does not own it asked to delete
   it and was refused: the post, already edited by its owner, is still there *)
C13_Witness ==
    /\ resp.op = "destroy_post" /\ resp.status = 403
    /\ \E p \in posts : p.title = "b"

OwnPostHidden(u) ==
    \/ profile[u] = NoProfile
    \/ profile[u] = PRIVATE /\ ~Follows(u, u)

(* C18: a detail, update or delete request by a post's owner whose profile is
   private with no self-follow edge, or who has no profile, is answered 404,
   goes no further and leaves the store as it was; and whenever such a
   request of the owner is served (detail) or goes on to its write (update,
   delete) the post is in the owner's own feed. *)
C18_OwnerReachesPostThroughOwnFeed ==
    [][\A w \in Workers : \A p \in posts :
          /\ (/\ OwnPostHidden(p.owner)
              /\ \/ PostListView_retrieve(p.owner, p.id)
                 \/ PostListView_destroy_check(w, p.owner, p.id)
                 \/ \E data \in PostData, partial \in BOOLEAN :
                        PostListView_update_check(w, p.owner, p.id, data, partial))
             => /\ resp'.op \in {"retrieve_post", "destroy_post", "update_post"}
                /\ resp'.status = 404
                /\ pc' = pc
                /\ UNCHANGED store
          /\ (PostListView_retrieve(p.owner, p.id) /\ resp'.status = 200)
             => p \in FeedPosts(p.owner)
          /\ (/\ pc'[w] # Idle
              /\ \/ PostListView_destroy_check(w, p.owner, p.id)
                 \/ \E data \in PostData, partial \in BOOLEAN :
                        PostListView_update_check(w, p.owner, p.id, data, partial))
             => p \in FeedPosts(p.owner)]_vars

(* the only post is of a private owner with no self-follow edge; the other
   user follows the owner, so the 404 just given to a detail request was
   given to the owner *)
C18_Witness ==
    /\ resp.op = "retrieve_post" /\ resp.status = 404
    /\ \E p \in posts :
          /\ p.id \in FewPostIds
          /\ profile[p.owner] = PRIVATE /\ ~Follows(p.owner, p.owner)
          /\ \A v \in Users \ {p.owner} : p \in FeedPosts(v)

----------------------------------------------------------------------------
(* Requests with no identity. *)

(* a step of an endpoint that needs an identity, requested with none *)
AnonymousRequest ==
    \/ \E data \in PostData : PostListView_create(Anonymous, data)
    \/ \E pk \in FewPostIds : PostListView_retrieve(Anonymous, pk)
    \/ ProfileView_get(Anonymous)
    \/ \E w \in Workers :
          \/ \E pk \in FewPostIds :
                \/ LikesView_post_read(w, Anonymous, pk)
                \/ LikesView_delete_read(w, Anonymous, pk)
                \/ \E body \in Bodies : CommentsView_post_check(w, Anonymous, pk, body)
                \/ \E comment_id \in CommentIds :
                      CommentsView_delete_read(w, Anonymous, pk, comment_id)
          \/ \E pk \in UserPks :
                \/ FollowSerializer_post_check(w, Anonymous, pk)
                \/ FollowSerializer_delete_check(w, Anonymous, pk)
                \/ BlockedUserView_post_check(w, Anonymous, pk)
                \/ BlockedUserView_delete_check(w, Anonymous, pk)
          \/ \E data \in ProfileData :
                UserProfileSerializer_update_check(w, Anonymous, data)
          \/ LogoutView_get_check(w, Anonymous)

(* C14: every request with no identity to like, unlike, comment, delete
   comment, follow, unfollow, block, unblock, create post, post detail,
   own-profile read or update, or logout is answered 401, neither a success
   nor a server error, goes no further and leaves the store as it was. *)
C14_NoIdentityIsUnauthenticated ==
    [][AnonymousRequest =>
          (resp'.status = 401 /\ pc' = pc /\ UNCHANGED store)]_vars

----------------------------------------------------------------------------
(* Own-profile update. *)

(* a step of the own-profile update, its reads or its write *)
ProfileUpdateStep == UpdateProfile \/ ProfileUpdateWrite

(* C17: no step of an own-profile update changes the privacy_setting of a
   Profile row that exists, whatever the request carries; the row it creates
   for a user without one is public; it touches the row of no user but the
   requester, and a user who has a row gets no second one. *)
C17_UpdateKeepsPrivacy ==
    [][ProfileUpdateStep =>
          \A u \in Users :
              profile'[u] # profile[u] =>
                  /\ profile[u] = NoProfile
                  /\ profile'[u] = PUBLIC]_vars

----------------------------------------------------------------------------
(* Block, then unblock. *)

OtherThanBlocked ==
    <<profile, profilePk, profileSeq, posts, postSeq, now, follows, likes,
      comments, commentSeq, tokens>>

(* C19: the write of a block that is answered 201 adds the edge (V, O) and
   changes nothing else in the store, so a Follower edge from the blocker to
   the blocked user stays; the write of an unblock is answered 204 and
   changes only the Blocked relation; and the unblock(V, O) that comes right
   after block(V, O) goes on to its write, is answered 204 and gives V the
   feed, members and order, that V had before the block. *)
C19_BlockThenUnblockRestoresFeed ==
    [][\A w \in Workers :
          /\ (/\ pc[w].op = "block"
              /\ BlockedUserView_post_write(w)
              /\ resp'.status = 201) =>
                \A v \in {pc[w].user} : \A o \in {pc[w].pk} : \A before \in {list(v)} :
                   /\ UNCHANGED OtherThanBlocked
                   /\ blocks' = [blocks EXCEPT ![<<v, o>>] = 1]
                   /\ (ENABLED (/\ BlockedUserView_delete_check(w, v, o)
                                /\ pc'[w].op = "unblock"
                                /\ (ENABLED (/\ BlockedUserView_delete_write(w)
                                             /\ resp'.status = 204
                                             /\ list(v)' = before))'))'
                   /\ ~(ENABLED (/\ BlockedUserView_delete_check(w, v, o)
                                 /\ \/ pc'[w].op # "unblock"
                                    \/ (ENABLED (/\ BlockedUserView_delete_write(w)
                                                 /\ \/ resp'.status # 204
                                                    \/ list(v)' # before))'))'
          /\ (pc[w].op = "unblock" /\ BlockedUserView_delete_write(w)) =>
                /\ resp'.status = 204
                /\ UNCHANGED OtherThanBlocked
                /\ \A k \in DOMAIN blocks :
                      blocks'[k] = IF k = <<pc[w].user, pc[w].pk>> THEN 0 ELSE blocks[k]]_vars

(* the block just answered 201 is of a followed private owner: the edge is
   still there, the owner's post has left the blocker's feed and another post
   stays in it *)
C19_Witness ==
    /\ resp.op = "block" /\ resp.status = 201
    /\ \E v \in Users : \E o \in Users \ {v} :
          /\ \A k \in DOMAIN blocks : blocks[k] > 0 <=> k = <<v, o>>
          /\ Follows(v, o) /\ profile[o] = PRIVATE
          /\ \E p \in posts : p.owner = o
          /\ \E s \in list(v) : Len(s) > 0
====
